---- MODULE Spec2Model ----
(***************************************************************************)
(* Open-addressing hash map of src/src/lib.rs: a bucket array of           *)
(* Unoccupied / Deleted / Occupied(key, value) slots, a `len` counter,     *)
(* quadratic probing, and a doubling rehash in ensure_capacity.            *)
(*                                                                         *)
(* Spec      : the whole table (insert / get / remove) on a scaled-down    *)
(*             bucket array (2^InitCapLog slots instead of 1024).          *)
(* WalkSpec  : one probe walk of get / remove / insert, slot by slot, on   *)
(*             an array of the program's real size (1024 * 2^d slots).     *)
(***************************************************************************)
EXTENDS Integers, Sequences, FiniteSets, TLC

\* ---------------------------------------------------------------- bounds
NumKeys == 2
NumValues == 2
\* The scaled table starts with 2^InitCapLog buckets (the program: 2^10).
InitCapLog == 2
\* insert is not called once a further growth would exceed 2^MaxCapLog buckets.
MaxCapLog == 3
\* WalkSpec walks tables of 1024 * 2^d buckets, d in 0..MaxDoublings.
MaxDoublings == 1

\* ------------------------------------------------------- program constants
LOAD_FACTOR_MAX == 65
\* Vec::with_capacity(1024); buckets.resize_with(1024, ...)
INITIAL_BUCKETS == 1024

Keys == 1..NumKeys
Values == 1..NumValues

\* Option<V>
None == <<>>
Some(v) == <<v>>

\* enum Bucket<K, V>
Unoccupied == [tag |-> "Unoccupied"]
Deleted == [tag |-> "Deleted"]
Occupied(k, v) == [tag |-> "Occupied", key |-> k, value |-> v]

IsOccupied(b) == b.tag = "Occupied"

VARIABLES
    buckets,     \* self.buckets : [0..capacity-1 -> Bucket]
    len,         \* self.len
    hung,        \* TRUE once a call's probe loop can never end
    op,          \* the last public call: [name, key, value]
    ret,         \* what the last public call returned
    latest,      \* history: key -> Some(v) of its most recent insert, None after a remove / never inserted
    onlyInserts, \* history: no remove has been called so far
    \* WalkSpec: one probe walk over a table of the program's real size
    wcap,        \* self.buckets.len()
    wbudget,     \* how many buckets of that table can be other than Unoccupied
    wstart,      \* expected_pos = hash as usize % self.buckets.len()
    wop,         \* the walking method: "get", "remove" or "insert"
    wpos,        \* pos
    wcount,      \* probe_count
    wexam,       \* buckets examined so far by this walk
    wfilled,     \* the indices found holding Deleted or another key's entry
    wstate,      \* "idle", "walking" or "done"
    wret         \* "None", "Some", or "slot" (insert found its slot)

vars == <<buckets, len, hung, op, ret, latest, onlyInserts,
          wcap, wbudget, wstart, wop, wpos, wcount, wexam, wfilled, wstate, wret>>
tableVars == <<buckets, len, hung, op, ret, latest, onlyInserts>>
walkVars == <<wcap, wbudget, wstart, wop, wpos, wcount, wexam, wfilled, wstate, wret>>

\* 2^n
RECURSIVE Pow2(_)
Pow2(n) == IF n = 0 THEN 1 ELSE 2 * Pow2(n - 1)

\* Default::default(): 1024 Unoccupied buckets in the program, scaled here.
DefaultCapacity == Pow2(InitCapLog)
MaxCapacity == Pow2(MaxCapLog)

\* self.buckets.len()
capacity(b) == Cardinality(DOMAIN b)

\* The key's Hash capability fed through DefaultHasher: a fixed function of
\* the key. Keys 1 and 2 share their hash (as KeyWithFixedHash in the tests);
\* the others collide with them modulo 4 but not modulo every larger capacity.
HashOf(k) == IF k <= 2 THEN 1 ELSE 4 * (k - 2) + 1

\* Variant: the step grows by two each time (2i - 1), which is plain
\* quadratic probing expected_pos + i^2 instead of the running sum of squares.
NextPosPlainQuadratic(pos, probe_count, cap) == (pos + 2 * probe_count - 1) % cap

\* pos = (pos + probe_count.pow(2)) % self.buckets.len()
NextPos(pos, probe_count, cap) == (pos + probe_count * probe_count) % cap

\* The sum of squares modulo cap has a period that divides 6*cap, so a probe
\* loop that has not stopped after 6*cap steps revisits only slots it has
\* already rejected and never stops.
Fuel(cap) == 6 * cap

\* insert's loop: walk while the slot is Occupied by another key.
\* Result: the slot index it stops at, or -1 when it never stops.
RECURSIVE InsertProbe(_, _, _, _)
InsertProbe(b, key, pos, probe_count) ==
    IF IsOccupied(b[pos]) /\ b[pos].key # key
    THEN IF probe_count >= Fuel(capacity(b))
         THEN -1
         ELSE InsertProbe(b, key, NextPos(pos, probe_count + 1, capacity(b)), probe_count + 1)
    ELSE pos

\* Variant: the division done before the multiplication, so the load factor
\* stays 0 until the table is full.
LoadFactorDivFirst(l, cap) == (l \div cap) * 100

\* let load_factor = self.len * 100 / self.buckets.len()
LoadFactor(l, cap) == (l * 100) \div cap

\* load_factor as u64 >= LOAD_FACTOR_MAX
NeedsGrow(m) == LoadFactor(m.len, capacity(m.buckets)) >= LOAD_FACTOR_MAX

\* Variant: the count is taken only when an entry is replaced instead of on
\* every call.
LenAfterInsertMiscount(l, existing) == IF IsOccupied(existing) THEN l + 1 ELSE l

\* self.len += 1, whatever the bucket held before
LenAfterInsert(l, existing) == l + 1

RECURSIVE insert(_, _, _)
RECURSIVE ensure_capacity(_)
RECURSIVE Reinsert(_, _, _)

\* for b in old_buckets { if let Occupied(p) = b { self.insert(p.key, p.value) } }
Reinsert(m, old, i) ==
    IF i >= capacity(old) \/ m.hang
    THEN m
    ELSE IF IsOccupied(old[i])
         THEN Reinsert(insert(m, old[i].key, old[i].value), old, i + 1)
         ELSE Reinsert(m, old, i + 1)

\* Variant: the array grows by half its length instead of doubling.
GrownCapacityByHalf(cap) == cap + cap \div 2

\* Vec::with_capacity(self.buckets.len() * 2)
GrownCapacity(cap) == cap * 2

\* Variant: the old array is lengthened in place, nothing is re-inserted.
ensure_capacity_extend(m) ==
    IF NeedsGrow(m)
    THEN [m EXCEPT !.buckets =
            [i \in 0..(GrownCapacity(capacity(m.buckets)) - 1) |->
                IF i < capacity(m.buckets) THEN m.buckets[i] ELSE Unoccupied]]
    ELSE m

ensure_capacity(m) ==
    IF NeedsGrow(m)
    THEN Reinsert([buckets |-> [i \in 0..(GrownCapacity(capacity(m.buckets)) - 1) |-> Unoccupied],
                   len |-> 0, ret |-> None, hang |-> FALSE],
                  m.buckets, 0)
    ELSE m

\* HashMap::insert on the map value m = [buckets, len, ret, hang]
insert(m, key, value) ==
    LET e == ensure_capacity(m)
        b == e.buckets
        pos == InsertProbe(b, key, HashOf(key) % capacity(b), 0)
    IN  IF e.hang \/ pos = -1
        THEN [e EXCEPT !.hang = TRUE]
        ELSE [buckets |-> [b EXCEPT ![pos] = Occupied(key, value)],
              len |-> LenAfterInsert(e.len, b[pos]),
              ret |-> IF IsOccupied(b[pos]) THEN Some(b[pos].value) ELSE None,
              hang |-> FALSE]

\* get's loop. Result: [ret, pos] where pos is the matching slot (or -1).
RECURSIVE GetLoop(_, _, _, _, _)
GetLoop(b, key, expected_pos, pos, probe_count) ==
    LET pc == probe_count + 1
        cur == b[pos]
        next == NextPos(pos, pc, capacity(b))
    IN  IF cur.tag = "Unoccupied" THEN [ret |-> None, pos |-> -1]
        ELSE IF IsOccupied(cur) /\ cur.key = key THEN [ret |-> Some(cur.value), pos |-> pos]
        ELSE IF next = expected_pos THEN [ret |-> None, pos |-> -1]
        ELSE GetLoop(b, key, expected_pos, next, pc)

\* HashMap::get
get(b, key) ==
    LET expected_pos == HashOf(key) % capacity(b)
    IN  GetLoop(b, key, expected_pos, expected_pos, 0).ret

\* HashMap::remove: the same walk as get; the matching bucket becomes Deleted
\* and self.len is left as it is.
remove(m, key) ==
    LET b == m.buckets
        expected_pos == HashOf(key) % capacity(b)
        found == GetLoop(b, key, expected_pos, expected_pos, 0)
    IN  IF found.pos = -1
        THEN [m EXCEPT !.ret = None]
        ELSE [m EXCEPT !.buckets = [b EXCEPT ![found.pos] = Deleted], !.ret = found.ret]

\* struct Pair<K, V>
Pair(k, v) == [key |-> k, value |-> v]

\* Iter::next / IntoIter::next, collected: the buckets are scanned in index
\* order from index i and every Occupied one yields its Pair.
RECURSIVE IterFrom(_, _)
IterFrom(b, i) ==
    IF i >= capacity(b) THEN <<>>
    ELSE IF IsOccupied(b[i])
         THEN <<Pair(b[i].key, b[i].value)>> \o IterFrom(b, i + 1)
         ELSE IterFrom(b, i + 1)

\* HashMap::iter (and into_iter): the pairs yielded, in order
iter(b) == IterFrom(b, 0)

self == [buckets |-> buckets, len |-> len, ret |-> None, hang |-> FALSE]

NoCall == [name |-> "new", key |-> 0, value |-> 0]

WalkIdle ==
    /\ wcap = 0 /\ wbudget = 0 /\ wstart = 0 /\ wop = "none" /\ wpos = 0 /\ wcount = 0
    /\ wexam = 0 /\ wfilled = {} /\ wstate = "idle" /\ wret = "none"

\* HashMap::new()
Init ==
    /\ buckets = [i \in 0..(DefaultCapacity - 1) |-> Unoccupied]
    /\ len = 0
    /\ hung = FALSE
    /\ op = NoCall
    /\ ret = None
    /\ latest = [k \in Keys |-> None]
    /\ onlyInserts = TRUE
    /\ WalkIdle

Insert(k, v) ==
    /\ ~hung
    /\ NeedsGrow(self) => 2 * capacity(buckets) <= MaxCapacity
    /\ LET r == insert(self, k, v)
       IN  /\ buckets' = r.buckets
           /\ len' = r.len
           /\ hung' = r.hang
           /\ ret' = r.ret
    /\ op' = [name |-> "insert", key |-> k, value |-> v]
    /\ latest' = [latest EXCEPT ![k] = Some(v)]
    /\ UNCHANGED <<onlyInserts, walkVars>>

Get(k) ==
    /\ ~hung
    /\ ret' = get(buckets, k)
    /\ op' = [name |-> "get", key |-> k, value |-> 0]
    /\ UNCHANGED <<buckets, len, hung, latest, onlyInserts, walkVars>>

Remove(k) ==
    /\ ~hung
    /\ LET r == remove(self, k)
       IN  /\ buckets' = r.buckets
           /\ len' = r.len
           /\ ret' = r.ret
    /\ op' = [name |-> "remove", key |-> k, value |-> 0]
    /\ latest' = [latest EXCEPT ![k] = None]
    /\ onlyInserts' = FALSE
    /\ UNCHANGED <<hung, walkVars>>

\* HashMap::iter().collect()
Iter ==
    /\ ~hung
    /\ ret' = iter(buckets)
    /\ op' = [name |-> "iter", key |-> 0, value |-> 0]
    /\ UNCHANGED <<buckets, len, hung, latest, onlyInserts, walkVars>>

\* pub fn ensure_capacity, called on its own
EnsureCapacity ==
    /\ ~hung
    /\ NeedsGrow(self) => 2 * capacity(buckets) <= MaxCapacity
    /\ LET r == ensure_capacity(self)
       IN  /\ buckets' = r.buckets
           /\ len' = r.len
           /\ hung' = r.hang
    /\ ret' = None
    /\ op' = [name |-> "ensure_capacity", key |-> 0, value |-> 0]
    /\ onlyInserts' = FALSE
    /\ UNCHANGED <<latest, walkVars>>

Next ==
    \/ \E k \in Keys, v \in Values : Insert(k, v)
    \/ \E k \in Keys : Get(k)
    \/ \E k \in Keys : Remove(k)
    \/ Iter
    \/ EnsureCapacity

Spec == Init /\ [][Next]_vars

\* ------------------------------------------------------------------------
\* WalkSpec: a single probe walk, one bucket per step, over a table of the
\* program's real size. The table is not enumerated: what a bucket holds is
\* decided when the walk first examines it, within what the table can hold.
\*
\* ensure_capacity runs before insert probes, so insert probes with
\* LoadFactor(len, cap) < LOAD_FACTOR_MAX; every insert adds one to len and
\* turns at most one Unoccupied bucket into something else, and a growth
\* restarts len at the number of re-inserted entries. Hence at most
\* MaxLenBeforeProbe(cap) buckets are Occupied when insert probes, and at most
\* one more is not Unoccupied when get or remove walk (TableWithinBudget checks
\* both facts on the scaled table of Spec). Any such set of buckets is
\* reachable: insert keys whose hashes are the wanted indices.

\* the largest len for which ensure_capacity does not grow a table of cap buckets
MaxLenBeforeProbe(cap) ==
    CHOOSE l \in 0..cap :
        /\ LoadFactor(l, cap) < LOAD_FACTOR_MAX
        /\ LoadFactor(l + 1, cap) >= LOAD_FACTOR_MAX

WalkCapacities == {INITIAL_BUCKETS * Pow2(d) : d \in 0..MaxDoublings}
WalkHashes == {HashOf(k) : k \in Keys}
Lookups == {"get", "remove"}

WalkInit ==
    /\ buckets = [i \in 0..(DefaultCapacity - 1) |-> Unoccupied]
    /\ len = 0 /\ hung = FALSE /\ op = NoCall /\ ret = None
    /\ latest = [k \in Keys |-> None] /\ onlyInserts = TRUE
    /\ wcap \in WalkCapacities
    /\ wop \in Lookups \cup {"insert"}
    /\ wbudget = IF wop = "insert" THEN MaxLenBeforeProbe(wcap) ELSE MaxLenBeforeProbe(wcap) + 1
    /\ wstart \in {h % wcap : h \in WalkHashes}
    /\ wpos = wstart
    /\ wcount = 0 /\ wexam = 0 /\ wfilled = {} /\ wstate = "walking" /\ wret = "none"

\* the table can hold one more bucket that is not Unoccupied
CanFill == Cardinality(wfilled) < wbudget

\* get / remove: Bucket::Unoccupied => return None
LookupUnoccupied ==
    /\ wstate = "walking" /\ wop \in Lookups
    /\ wpos \notin wfilled
    /\ wcount' = wcount + 1
    /\ wexam' = wexam + 1
    /\ wstate' = "done"
    /\ wret' = "None"
    /\ UNCHANGED <<tableVars, wcap, wbudget, wstart, wop, wpos, wfilled>>

\* get / remove: Bucket::Occupied(p) with key == &p.key => return Some
LookupFound ==
    /\ wstate = "walking" /\ wop \in Lookups
    /\ wpos \notin wfilled /\ CanFill
    /\ wcount' = wcount + 1
    /\ wexam' = wexam + 1
    /\ wstate' = "done"
    /\ wret' = "Some"
    /\ UNCHANGED <<tableVars, wcap, wbudget, wstart, wop, wpos, wfilled>>

\* get / remove: Bucket::Deleted, or Occupied by another key: step on, and
\* give up when the walk is back at expected_pos.
LookupSkip ==
    /\ wstate = "walking" /\ wop \in Lookups
    /\ wpos \in wfilled \/ CanFill
    /\ wfilled' = wfilled \cup {wpos}
    /\ wcount' = wcount + 1
    /\ wexam' = wexam + 1
    /\ wpos' = NextPos(wpos, wcount + 1, wcap)
    /\ IF wpos' = wstart
       THEN wstate' = "done" /\ wret' = "None"
       ELSE wstate' = "walking" /\ wret' = wret
    /\ UNCHANGED <<tableVars, wcap, wbudget, wstart, wop>>

\* insert: the bucket is Unoccupied, Deleted or holds an equal key: the loop ends
InsertStop ==
    /\ wstate = "walking" /\ wop = "insert"
    /\ wpos \notin wfilled
    /\ wexam' = wexam + 1
    /\ wstate' = "done"
    /\ wret' = "slot"
    /\ UNCHANGED <<tableVars, wcap, wbudget, wstart, wop, wpos, wcount, wfilled>>

\* insert: the bucket is Occupied by another key: probe_count += 1, next pos
InsertSkip ==
    /\ wstate = "walking" /\ wop = "insert"
    /\ wpos \in wfilled \/ CanFill
    /\ wfilled' = wfilled \cup {wpos}
    /\ wcount' = wcount + 1
    /\ wexam' = wexam + 1
    /\ wpos' = NextPos(wpos, wcount + 1, wcap)
    /\ UNCHANGED <<tableVars, wcap, wbudget, wstart, wop, wstate, wret>>

WalkNext ==
    \/ LookupUnoccupied
    \/ LookupFound
    \/ LookupSkip
    \/ InsertStop
    \/ InsertSkip

WalkSpec == WalkInit /\ [][WalkNext]_vars

\* ------------------------------------------------------------------------
\* Views of the table used by the properties below

\* the indices of the Occupied buckets
OccupiedSlots(b) == {i \in DOMAIN b : IsOccupied(b[i])}

\* some Occupied bucket holds key k
KeyStored(b, k) == \E i \in DOMAIN b : IsOccupied(b[i]) /\ b[i].key = k

\* ------------------------------------------------------------------------
\* C1: for every key whose most recent operation was insert(k, v), get(k)
\* returns Some(v), in every state reachable by inserts and removes
\* (resizes included).
C1_GetReturnsLatestInsert ==
    \A k \in Keys : latest[k] # None => get(buckets, k) = latest[k]

\* C2: when k is present with value v (its latest insert, not since
\* removed), remove(k) returns Some(v) and a get(k) right afterwards
\* returns None.
C2_RemoveThenGetNone ==
    [][\A k \in Keys :
        (latest[k] # None /\ op'.name = "remove" /\ op'.key = k)
            => (ret' = latest[k] /\ get(buckets', k) = None)]_vars

\* C3: when k is present with value v, insert(k, v2) returns Some(v) and a
\* following get(k) returns Some(v2).
C3_ReinsertReturnsOld ==
    [][\A k \in Keys :
        (latest[k] # None /\ op'.name = "insert" /\ op'.key = k)
            => (ret' = latest[k] /\ get(buckets', k) = Some(op'.value))]_vars

\* C4: no two Occupied buckets hold equal keys.
C4_NoDuplicateKeys ==
    \A i, j \in DOMAIN buckets :
        (i # j /\ IsOccupied(buckets[i]) /\ IsOccupied(buckets[j]))
            => buckets[i].key # buckets[j].key

\* C5: len() equals the number of Occupied buckets.
C5_LenCountsOccupied ==
    len = Cardinality(OccupiedSlots(buckets))

\* C8: after inserts only, len() equals the number of distinct keys inserted.
C8_LenIsDistinctKeys ==
    onlyInserts => len = Cardinality({k \in Keys : latest[k] # None})

\* C9: insert of a key already stored leaves len() as it was; insert of a
\* key not stored increases len() by exactly one.
C9_InsertLenEffect ==
    [][\A k \in Keys :
        (op'.name = "insert" /\ op'.key = k)
            => IF KeyStored(buckets, k) THEN len' = len ELSE len' = len + 1]_vars

\* C10: a remove(k) that finds k replaces its bucket with Deleted and leaves
\* len() exactly one less than before the call.
C10_RemoveLenEffect ==
    [][\A k \in Keys :
        (op'.name = "remove" /\ op'.key = k /\ ret' # None)
            => /\ \E i \in DOMAIN buckets :
                    /\ IsOccupied(buckets[i]) /\ buckets[i].key = k
                    /\ buckets' = [buckets EXCEPT ![i] = Deleted]
               /\ len' = len - 1]_vars

\* The facts WalkSpec's budget rests on, on the scaled table: no more buckets
\* are other than Unoccupied than len counts, and len never exceeds the last
\* value ensure_capacity lets pass, plus the one insert adds.
TableWithinBudget ==
    /\ Cardinality({i \in DOMAIN buckets : buckets[i] # Unoccupied}) <= len
    /\ len <= MaxLenBeforeProbe(capacity(buckets)) + 1

\* C6: get and remove end after examining at most capacity() buckets, with
\* None when no equal key is met, however many buckets on the key's probe
\* sequence hold other keys or Deleted.
C6_LookupWalkBounded ==
    wop \in Lookups =>
        /\ wexam <= wcap
        /\ wstate = "walking" => wexam < wcap
        /\ wstate = "done" => wret \in {"None", "Some"}

\* a lookup of an absent key over a table holding as many colliding entries
\* as it can returned None
C6_Witness ==
    /\ wop \in Lookups /\ wstate = "done" /\ wret = "None"
    /\ Cardinality(wfilled) = wbudget
    /\ wexam > wbudget

\* C7: insert's probe loop takes at most capacity() steps before it stops at
\* a free or equal-key bucket.
C7_InsertWalkBounded ==
    wop = "insert" =>
        /\ wcount <= wcap
        /\ wstate = "walking" => wcount < wcap

\* insert walked past as many Occupied buckets as the table can hold and
\* stopped
C7_Witness ==
    /\ wop = "insert" /\ wstate = "done" /\ wret = "slot"
    /\ Cardinality(wfilled) = wbudget
    /\ wcount >= wbudget

\* ------------------------------------------------------------------------
\* C11: iterating yields exactly len() pairs, no key twice, and the set of
\* yielded pairs is the set of (key, latest inserted value) of the keys
\* currently present.
C11_IterYieldsContents ==
    op.name = "iter" =>
        /\ Len(ret) = len
        /\ \A i, j \in 1..Len(ret) : i # j => ret[i].key # ret[j].key
        /\ {ret[i] : i \in 1..Len(ret)}
               = {Pair(k, latest[k][1]) : k \in {x \in Keys : latest[x] # None}}

\* the step is a call of ensure_capacity that grew the table
Grew ==
    /\ op'.name = "ensure_capacity"
    /\ capacity(buckets') > capacity(buckets)

\* C12: when ensure_capacity grows the table, every pair stored before the
\* growth is stored after it with the same value, and get returns it.
C12_GrowthKeepsPairs ==
    [][Grew =>
        \A i \in OccupiedSlots(buckets) :
            /\ \E j \in OccupiedSlots(buckets') : buckets'[j] = buckets[i]
            /\ get(buckets', buckets[i].key) = Some(buckets[i].value)]_vars

\* C13: when ensure_capacity grows the table, len() after the growth equals
\* len() before it.
C13_GrowthKeepsLen ==
    [][Grew => len' = len]_vars

\* C14: after remove(k) has removed k, a following insert(k, v) returns None
\* and a get(k) after it returns Some(v).
C14_ReinsertAfterRemove ==
    [][\A k \in Keys :
        (op.name = "remove" /\ op.key = k /\ ret # None
            /\ op'.name = "insert" /\ op'.key = k)
            => (ret' = None /\ get(buckets', k) = Some(op'.value))]_vars

\* ------------------------------------------------------------------------
\* C15: the sequence of indices a walk probes starts at h mod c, stays within
\* [0, c), and its first c elements are pairwise distinct. (In a walking
\* state wpos is element number wexam of the sequence and wfilled holds the
\* elements before it.)
C15_ProbeSequencePermutation ==
    wstate = "walking" =>
        /\ wexam = 0 => wpos = wstart
        /\ wpos \in 0..(wcap - 1)
        /\ wexam < wcap => wpos \notin wfilled

\* C16: capacity() never decreases; get, remove and iteration leave it as it
\* is; one insert leaves it or sets it to exactly twice its value, the latter
\* exactly when len*100/capacity >= 65 as the insert starts.
C16_CapacityOnlyDoubles ==
    [][/\ capacity(buckets') >= capacity(buckets)
       /\ op'.name \in {"get", "remove", "iter"} => capacity(buckets') = capacity(buckets)
       /\ op'.name = "insert" =>
            capacity(buckets') =
                IF (len * 100) \div capacity(buckets) >= LOAD_FACTOR_MAX
                THEN 2 * capacity(buckets)
                ELSE capacity(buckets)]_vars

\* an insert has run on a table that has grown and holds several entries
C16_Witness ==
    /\ op.name = "insert"
    /\ capacity(buckets) = 2 * DefaultCapacity
    /\ Cardinality(OccupiedSlots(buckets)) >= 2

\* C17: right after ensure_capacity returns (so whenever insert starts to
\* probe) len*100/capacity < 65, and len() <= capacity() after every public
\* operation.
C17_LoadBelowThreshold ==
    /\ len <= capacity(buckets)
    /\ LET e == ensure_capacity(self)
       IN  (e.len * 100) \div capacity(e.buckets) < LOAD_FACTOR_MAX
    /\ op.name = "ensure_capacity" => (len * 100) \div capacity(buckets) < LOAD_FACTOR_MAX

\* ensure_capacity has grown a table and carried entries over
C17_Witness ==
    /\ op.name = "ensure_capacity"
    /\ capacity(buckets) = 2 * DefaultCapacity
    /\ len >= 1

\* C18: without a growth, a Deleted bucket stays Deleted or becomes Occupied,
\* never Unoccupied; right after ensure_capacity grows the table the new array
\* holds no Deleted bucket, and only entries that were Occupied in the old one.
C18_DeletedOnlyDroppedByGrowth ==
    [][/\ capacity(buckets') = capacity(buckets) =>
            \A i \in DOMAIN buckets :
                buckets[i] = Deleted => (buckets'[i] = Deleted \/ IsOccupied(buckets'[i]))
       /\ Grew =>
            \A j \in DOMAIN buckets' :
                /\ buckets'[j] # Deleted
                /\ IsOccupied(buckets'[j]) =>
                       \E i \in OccupiedSlots(buckets) : buckets[i] = buckets'[j]]_vars

\* an insert has just turned a Deleted bucket into an Occupied one: it found
\* no equal key (None) although the key is stored a second time further along
C18_Witness ==
    /\ op.name = "insert" /\ ret = None
    /\ Cardinality({i \in OccupiedSlots(buckets) : buckets[i].key = op.key}) = 2

\* C19: for a key not currently present (never inserted, or removed since its
\* last insert) get returns None, remove returns None, and that remove
\* changes no bucket, nor len(), nor capacity().
C19_AbsentKeyGivesNone ==
    [][\A k \in Keys :
        latest[k] = None =>
            /\ get(buckets, k) = None
            /\ (op'.name = "remove" /\ op'.key = k) =>
                   (ret' = None /\ buckets' = buckets /\ len' = len)]_vars

\* C20: len() is at least the number of Occupied buckets, and when insert
\* starts to probe (ensure_capacity done) fewer buckets are Occupied than the
\* array has.
C20_OccupiedBelowCapacity ==
    /\ Cardinality(OccupiedSlots(buckets)) <= len
    /\ LET e == ensure_capacity(self)
       IN  Cardinality(OccupiedSlots(e.buckets)) < capacity(e.buckets)

\* after an insert, every count in len is an Occupied bucket
C20_Witness ==
    /\ op.name = "insert"
    /\ len >= 2
    /\ Cardinality(OccupiedSlots(buckets)) = len

====
